---------------------------- MODULE Spec2Model ----------------------------
(***************************************************************************)
(* IBEX AI backend (src/app.py): the SmartIbexAI orchestrator              *)
(* (intent classification, prompt construction, generated-text             *)
(* post-processing, template fallback, bounded conversation context) and   *)
(* the /chat route that drives it, served by concurrent worker threads     *)
(* that share the one module-level SmartIbexAI instance.                   *)
(*                                                                         *)
(* A Python str is a sequence of one-character strings; a character        *)
(* outside printable ASCII is written "U+XXXX" (one element per Python     *)
(* character, so lengths and slices are those of the source).              *)
(***************************************************************************)
EXTENDS Integers, Sequences, FiniteSets, TLC

(***************************************************************************)
(* Python str operations used by src/app.py                                *)
(***************************************************************************)
UpperChars ==
    <<"A", "B", "C", "D", "E", "F", "G", "H", "I", "J", "K", "L", "M",
      "N", "O", "P", "Q", "R", "S", "T", "U", "V", "W", "X", "Y", "Z">>

LowerChars ==
    <<"a", "b", "c", "d", "e", "f", "g", "h", "i", "j", "k", "l", "m",
      "n", "o", "p", "q", "r", "s", "t", "u", "v", "w", "x", "y", "z">>

LowerChar(c) ==
    IF \E i \in 1..Len(UpperChars) : UpperChars[i] = c
    THEN LowerChars[CHOOSE i \in 1..Len(UpperChars) : UpperChars[i] = c]
    ELSE c

\* str.lower()
Lower(s) == [i \in 1..Len(s) |-> LowerChar(s[i])]

\* s[:n]
Prefix(s, n) == SubSeq(s, 1, IF Len(s) < n THEN Len(s) ELSE n)

\* s[-n:] on a list
LastN(s, n) == SubSeq(s, IF Len(s) < n THEN 1 ELSE Len(s) - n + 1, Len(s))

\* sub occurs in s at offset i (0-based)
MatchAt(s, sub, i) == \A j \in 1..Len(sub) : s[i + j] = sub[j]

\* `sub in s`
Contains(s, sub) == \E i \in 0..(Len(s) - Len(sub)) : MatchAt(s, sub, i)

\* s.find(sub), for a sub that occurs in s
Find(s, sub) ==
    CHOOSE i \in 0..(Len(s) - Len(sub)) :
        /\ MatchAt(s, sub, i)
        /\ \A k \in 0..(i - 1) : ~MatchAt(s, sub, k)

\* s.replace(old, ""): every non-overlapping occurrence, left to right
RECURSIVE RemoveAll(_, _)
RemoveAll(s, old) ==
    IF Len(old) = 0 \/ ~Contains(s, old)
    THEN s
    ELSE LET i == Find(s, old)
         IN  SubSeq(s, 1, i) \o RemoveAll(SubSeq(s, i + Len(old) + 1, Len(s)), old)

\* s.endswith(suffix)
EndsWith(s, suffix) ==
    /\ Len(suffix) <= Len(s)
    /\ MatchAt(s, suffix, Len(s) - Len(suffix))

Whitespace == {" ", "\t", "\n", "\r", "\f"}

\* s.strip()
Strip(s) ==
    LET keep == {i \in 1..Len(s) : s[i] \notin Whitespace}
    IN  IF keep = {}
        THEN << >>
        ELSE SubSeq(s, CHOOSE i \in keep : \A k \in keep : i <= k,
                       CHOOSE i \in keep : \A k \in keep : k <= i)

\* s.split(c) for a one-character separator
RECURSIVE Split(_, _)
Split(s, c) ==
    IF \A i \in 1..Len(s) : s[i] # c
    THEN <<s>>
    ELSE LET i == CHOOSE i \in 1..Len(s) : s[i] = c /\ \A k \in 1..(i - 1) : s[k] # c
         IN  <<SubSeq(s, 1, i - 1)>> \o Split(SubSeq(s, i + 1, Len(s)), c)

\* sep.join(parts)
RECURSIVE Join(_, _)
Join(sep, parts) ==
    IF Len(parts) = 0 THEN << >>
    ELSE IF Len(parts) = 1 THEN parts[1]
    ELSE parts[1] \o sep \o Join(sep, Tail(parts))

\* any(word in msg for word in words)
AnyWordIn(words, msg) == \E k \in 1..Len(words) : Contains(msg, words[k])

(***************************************************************************)
(* String tables of SmartIbexAI                                            *)
(***************************************************************************)
\* self.personality_prompts
personality_prompts ==
    [greeting |->
       (* I am IBEX, a witty AI security companion. Respond warmly with humor and offer protection. *)
       <<"I", " ", "a", "m", " ", "I", "B", "E", "X", ",", " ", "a", " ", "w", "i", "t",
         "t", "y", " ", "A", "I", " ", "s", "e", "c", "u", "r", "i", "t", "y", " ", "c",
         "o", "m", "p", "a", "n", "i", "o", "n", ".", " ", "R", "e", "s", "p", "o", "n",
         "d", " ", "w", "a", "r", "m", "l", "y", " ", "w", "i", "t", "h", " ", "h", "u",
         "m", "o", "r", " ", "a", "n", "d", " ", "o", "f", "f", "e", "r", " ", "p", "r",
         "o", "t", "e", "c", "t", "i", "o", "n", ".">>,
     threat |->
       (* I am IBEX, an expert cybersecurity AI. Analyze this threat seriously but with confidence and wit. *)
       <<"I", " ", "a", "m", " ", "I", "B", "E", "X", ",", " ", "a", "n", " ", "e", "x",
         "p", "e", "r", "t", " ", "c", "y", "b", "e", "r", "s", "e", "c", "u", "r", "i",
         "t", "y", " ", "A", "I", ".", " ", "A", "n", "a", "l", "y", "z", "e", " ", "t",
         "h", "i", "s", " ", "t", "h", "r", "e", "a", "t", " ", "s", "e", "r", "i", "o",
         "u", "s", "l", "y", " ", "b", "u", "t", " ", "w", "i", "t", "h", " ", "c", "o",
         "n", "f", "i", "d", "e", "n", "c", "e", " ", "a", "n", "d", " ", "w", "i", "t",
         ".">>,
     help |->
       (* I am IBEX, a helpful security AI. Provide clear, actionable advice with encouraging tone. *)
       <<"I", " ", "a", "m", " ", "I", "B", "E", "X", ",", " ", "a", " ", "h", "e", "l",
         "p", "f", "u", "l", " ", "s", "e", "c", "u", "r", "i", "t", "y", " ", "A", "I",
         ".", " ", "P", "r", "o", "v", "i", "d", "e", " ", "c", "l", "e", "a", "r", ",",
         " ", "a", "c", "t", "i", "o", "n", "a", "b", "l", "e", " ", "a", "d", "v", "i",
         "c", "e", " ", "w", "i", "t", "h", " ", "e", "n", "c", "o", "u", "r", "a", "g",
         "i", "n", "g", " ", "t", "o", "n", "e", ".">>,
     casual |->
       (* I am IBEX, a friendly AI companion focused on security. Be engaging while staying security-focused. *)
       <<"I", " ", "a", "m", " ", "I", "B", "E", "X", ",", " ", "a", " ", "f", "r", "i",
         "e", "n", "d", "l", "y", " ", "A", "I", " ", "c", "o", "m", "p", "a", "n", "i",
         "o", "n", " ", "f", "o", "c", "u", "s", "e", "d", " ", "o", "n", " ", "s", "e",
         "c", "u", "r", "i", "t", "y", ".", " ", "B", "e", " ", "e", "n", "g", "a", "g",
         "i", "n", "g", " ", "w", "h", "i", "l", "e", " ", "s", "t", "a", "y", "i", "n",
         "g", " ", "s", "e", "c", "u", "r", "i", "t", "y", "-", "f", "o", "c", "u", "s",
         "e", "d", ".">>,
     appreciation |->
       (* I am IBEX, a humble AI protector. Accept thanks graciously with humor. *)
       <<"I", " ", "a", "m", " ", "I", "B", "E", "X", ",", " ", "a", " ", "h", "u", "m",
         "b", "l", "e", " ", "A", "I", " ", "p", "r", "o", "t", "e", "c", "t", "o", "r",
         ".", " ", "A", "c", "c", "e", "p", "t", " ", "t", "h", "a", "n", "k", "s", " ",
         "g", "r", "a", "c", "i", "o", "u", "s", "l", "y", " ", "w", "i", "t", "h", " ",
         "h", "u", "m", "o", "r", ".">>]

\* the fallbacks table of get_fallback_response
fallbacks ==
    [greeting |->
       (* Hey there! I'm IBEX, your witty AI security companion. Ready to keep you safe today? *)
       <<"H", "e", "y", " ", "t", "h", "e", "r", "e", "!", " ", "I", "'", "m", " ", "I",
         "B", "E", "X", ",", " ", "y", "o", "u", "r", " ", "w", "i", "t", "t", "y", " ",
         "A", "I", " ", "s", "e", "c", "u", "r", "i", "t", "y", " ", "c", "o", "m", "p",
         "a", "n", "i", "o", "n", ".", " ", "R", "e", "a", "d", "y", " ", "t", "o", " ",
         "k", "e", "e", "p", " ", "y", "o", "u", " ", "s", "a", "f", "e", " ", "t", "o",
         "d", "a", "y", "?">>,
     threat |->
       (* ???? I'm analyzing this threat now. Stay calm - I've got your back on this one! *)
       <<"U+00F0", "U+0178", "U+0161", "U+00A8", " ", "I", "'", "m", " ", "a", "n", "a", "l", "y", "z", "i",
         "n", "g", " ", "t", "h", "i", "s", " ", "t", "h", "r", "e", "a", "t", " ", "n",
         "o", "w", ".", " ", "S", "t", "a", "y", " ", "c", "a", "l", "m", " ", "-", " ",
         "I", "'", "v", "e", " ", "g", "o", "t", " ", "y", "o", "u", "r", " ", "b", "a",
         "c", "k", " ", "o", "n", " ", "t", "h", "i", "s", " ", "o", "n", "e", "!">>,
     help |->
       (* I'm here to help! Security is my specialty - what can I assist you with? *)
       <<"I", "'", "m", " ", "h", "e", "r", "e", " ", "t", "o", " ", "h", "e", "l", "p",
         "!", " ", "S", "e", "c", "u", "r", "i", "t", "y", " ", "i", "s", " ", "m", "y",
         " ", "s", "p", "e", "c", "i", "a", "l", "t", "y", " ", "-", " ", "w", "h", "a",
         "t", " ", "c", "a", "n", " ", "I", " ", "a", "s", "s", "i", "s", "t", " ", "y",
         "o", "u", " ", "w", "i", "t", "h", "?">>,
     casual |->
       (* I'm doing great! Always ready to chat and protect. What's on your mind? *)
       <<"I", "'", "m", " ", "d", "o", "i", "n", "g", " ", "g", "r", "e", "a", "t", "!",
         " ", "A", "l", "w", "a", "y", "s", " ", "r", "e", "a", "d", "y", " ", "t", "o",
         " ", "c", "h", "a", "t", " ", "a", "n", "d", " ", "p", "r", "o", "t", "e", "c",
         "t", ".", " ", "W", "h", "a", "t", "'", "s", " ", "o", "n", " ", "y", "o", "u",
         "r", " ", "m", "i", "n", "d", "?">>,
     appreciation |->
       (* You're very welcome! Keeping you safe is what I do best! *)
       <<"Y", "o", "u", "'", "r", "e", " ", "v", "e", "r", "y", " ", "w", "e", "l", "c",
         "o", "m", "e", "!", " ", "K", "e", "e", "p", "i", "n", "g", " ", "y", "o", "u",
         " ", "s", "a", "f", "e", " ", "i", "s", " ", "w", "h", "a", "t", " ", "I", " ",
         "d", "o", " ", "b", "e", "s", "t", "!">>]

\* the default of fallbacks.get(intent, ...)
default_fallback ==
    (* I'm IBEX, your intelligent security companion! How can I help you today? *)
    <<"I", "'", "m", " ", "I", "B", "E", "X", ",", " ", "y", "o", "u", "r", " ", "i",
      "n", "t", "e", "l", "l", "i", "g", "e", "n", "t", " ", "s", "e", "c", "u", "r",
      "i", "t", "y", " ", "c", "o", "m", "p", "a", "n", "i", "o", "n", "!", " ", "H",
      "o", "w", " ", "c", "a", "n", " ", "I", " ", "h", "e", "l", "p", " ", "y", "o",
      "u", " ", "t", "o", "d", "a", "y", "?">>

\* the safety-tip suffixes of enhance_response
voice_suffix ==
    (*  ???? Voice threats are serious - always verify callers independently! *)
    <<" ", "U+00F0", "U+0178", "U+017D", "U+00A4", " ", "V", "o", "i", "c", "e", " ", "t", "h", "r", "e",
      "a", "t", "s", " ", "a", "r", "e", " ", "s", "e", "r", "i", "o", "u", "s", " ",
      "-", " ", "a", "l", "w", "a", "y", "s", " ", "v", "e", "r", "i", "f", "y", " ",
      "c", "a", "l", "l", "e", "r", "s", " ", "i", "n", "d", "e", "p", "e", "n", "d",
      "e", "n", "t", "l", "y", "!">>

email_suffix ==
    (*  ???? Email security tip: Never click suspicious links! *)
    <<" ", "U+00F0", "U+0178", "U+201C", "U+00A7", " ", "E", "m", "a", "i", "l", " ", "s", "e", "c", "u",
      "r", "i", "t", "y", " ", "t", "i", "p", ":", " ", "N", "e", "v", "e", "r", " ",
      "c", "l", "i", "c", "k", " ", "s", "u", "s", "p", "i", "c", "i", "o", "u", "s",
      " ", "l", "i", "n", "k", "s", "!">>

generic_suffix ==
    (*  ?????? I've got your back on this security issue! *)
    <<" ", "U+00F0", "U+0178", "U+203A", "U+00A1", "U+00EF", "U+00B8", " ", "I", "'", "v", "e", " ", "g", "o", "t",
      " ", "y", "o", "u", "r", " ", "b", "a", "c", "k", " ", "o", "n", " ", "t", "h",
      "i", "s", " ", "s", "e", "c", "u", "r", "i", "t", "y", " ", "i", "s", "s", "u",
      "e", "!">>

greeting_words ==
    <<<<"h", "e", "l", "l", "o">>, <<"h", "i">>, <<"h", "e", "y">>,
      (* good morning *)
      <<"g", "o", "o", "d", " ", "m", "o", "r", "n", "i", "n", "g">>>>

threat_words ==
    <<<<"t", "h", "r", "e", "a", "t">>,
      <<"s", "u", "s", "p", "i", "c", "i", "o", "u", "s">>,
      <<"s", "c", "a", "m">>,
      <<"p", "h", "i", "s", "h", "i", "n", "g">>,
      <<"h", "a", "c", "k">>,
      <<"d", "a", "n", "g", "e", "r", "o", "u", "s">>>>

help_words ==
    <<<<"h", "e", "l", "p">>, <<"h", "o", "w">>, <<"a", "d", "v", "i", "c", "e">>, <<"g", "u", "i", "d", "e">>,
      (* what should *)
      <<"w", "h", "a", "t", " ", "s", "h", "o", "u", "l", "d">>>>

appreciation_words ==
    <<<<"t", "h", "a", "n", "k">>, <<"t", "h", "a", "n", "k", "s">>,
      <<"g", "o", "o", "d", " ", "j", "o", "b">>, <<"a", "w", "e", "s", "o", "m", "e">>>>

\* Program constants
ExcerptLen == 50

PromptExcerptLen == 30

ContextCapacity == 3

RecentTurns == 2

MaxSentences == 2

(***************************************************************************)
(* Pure methods of SmartIbexAI                                             *)
(***************************************************************************)
\* analyze_intent(message): the first category, in the order of the if/elif
\* chain, one of whose keywords is a substring of message.lower()
analyze_intent(message) ==
    LET msg == Lower(message)
    IN  IF AnyWordIn(greeting_words, msg) THEN "greeting"
        ELSE IF AnyWordIn(threat_words, msg) THEN "threat"
        ELSE IF AnyWordIn(help_words, msg) THEN "help"
        ELSE IF AnyWordIn(appreciation_words, msg) THEN "appreciation"
        ELSE "casual"

\* Faulty variant of get_fallback_response: the table lacks the 'casual' entry
\* and the default of .get is the empty string
get_fallback_response_NoCasual(intent, message) ==
    IF intent \in DOMAIN fallbacks \ {"casual"} THEN fallbacks[intent] ELSE << >>

\* get_fallback_response(intent, message)
get_fallback_response(intent, message) ==
    IF intent \in DOMAIN fallbacks THEN fallbacks[intent] ELSE default_fallback

\* the sentences list of enhance_response
Sentences(text) ==
    LET parts == Split(text, ".")
        stripped == [i \in 1..Len(parts) |-> Strip(parts[i])]
        NonEmpty(x) == Len(x) > 0
    IN  SelectSeq(stripped, NonEmpty)

\* Faulty variant of CleanSentences: every sentence is kept
CleanSentences_All(sentences) ==
    LET joined == Join(<<".", " ">>, sentences)
    IN  IF EndsWith(joined, <<".">>) THEN joined ELSE joined \o <<".">>

\* the clean_response of enhance_response before the security suffix:
\* '. '.join(sentences[:2]), with a '.' added unless it ends with one
CleanSentences(sentences) ==
    LET joined == Join(<<".", " ">>, Prefix(sentences, MaxSentences))
    IN  IF EndsWith(joined, <<".">>) THEN joined ELSE joined \o <<".">>

\* the suffix enhance_response adds for the intent and the original message
SecuritySuffix(intent, original_message) ==
    IF intent = "threat"
    THEN IF Contains(Lower(original_message), <<"v", "o", "i", "c", "e">>) THEN voice_suffix
         ELSE IF Contains(Lower(original_message), <<"e", "m", "a", "i", "l">>) THEN email_suffix
         ELSE generic_suffix
    ELSE << >>

\* enhance_response(response, intent, original_message)
enhance_response(text, intent, original_message) ==
    LET sentences == Sentences(text)
    IN  IF Len(sentences) = 0
        THEN get_fallback_response(intent, original_message)
        ELSE CleanSentences(sentences) \o SecuritySuffix(intent, original_message)

\* the recent_context string built from the last two exchanges
RECURSIVE RenderExchanges(_)
RenderExchanges(exchanges) ==
    IF Len(exchanges) = 0 THEN << >>
    ELSE <<"U", "s", "e", "r", ":", " ">> \o Prefix(exchanges[1].user, PromptExcerptLen)
         \o <<".", ".", ".", " ", "I", "B", "E", "X", ":", " ">> \o Prefix(exchanges[1].ai, PromptExcerptLen)
         \o <<".", ".", ".", " ">> \o RenderExchanges(Tail(exchanges))

RecentContext(context) == RenderExchanges(LastN(context, RecentTurns))

\* full_prompt
FullPrompt(intent, recent_context, message) ==
    (IF intent \in DOMAIN personality_prompts
     THEN personality_prompts[intent] ELSE personality_prompts["casual"])
    \o <<" ">> \o recent_context \o
    (*  User says:  *)
    <<" ", "U", "s", "e", "r", " ", "s", "a", "y", "s", ":", " ">>
    \o message \o
    (*  IBEX responds: *)
    <<" ", "I", "B", "E", "X", " ", "r", "e", "s", "p", "o", "n", "d", "s", ":">>

\* the ai_response extracted from the decoded text
ExtractResponse(full_prompt, decoded) ==
    IF Contains(decoded, full_prompt)
    THEN Strip(RemoveAll(decoded, full_prompt))
    ELSE Strip(decoded)

\* the exchange update_context stores
Exchange(user_msg, ai_response) ==
    [user |-> Prefix(user_msg, ExcerptLen), ai |-> Prefix(ai_response, ExcerptLen)]

(***************************************************************************)
(* State                                                                   *)
(***************************************************************************)
VARIABLES
    BLENDERBOT_AVAILABLE,   \* the module-level flag
    tokenizer,              \* smart_ibex.tokenizer: "None" or "loaded"
    model,                  \* smart_ibex.model: "None" or "loaded"
    conversation_context,   \* smart_ibex.conversation_context
    pc,                     \* where each worker thread is in chat()
    data,                   \* per thread: request.get_json()
    message,                \* per thread: data['message']
    intent,                 \* per thread: the classified intent
    recent_context,         \* per thread: the rendered context of the prompt
    response,               \* per thread: the decoded text of the model
    ai_response,            \* per thread: the text left after prompt stripping
    clean_response,         \* per thread: what enhance_response returned
    path,                   \* per thread: the branch the request took
    result,                 \* per thread: the HTTP answer being returned
    generate_calls,         \* per thread: model.generate calls of the request
    appended,               \* every exchange passed to append, in order
    served                  \* requests accepted so far

vars ==
    <<BLENDERBOT_AVAILABLE, tokenizer, model, conversation_context, pc, data,
      message, intent, recent_context, response, ai_response, clean_response,
      path, result, generate_calls, appended, served>>

shared == <<BLENDERBOT_AVAILABLE, tokenizer, model>>

locals ==
    <<data, message, intent, recent_context, response, ai_response, clean_response>>

\* Worker threads of the server (Flask's development server is threaded)
Threads == {"t1", "t2"}

\* The one thread of the sequential specification
MainThread == "t1"

\* Requests served in a behaviour of Spec
MaxRequests == 4

\* Requests served in a behaviour of SerialSpec
SerialMaxRequests == 5

\* Requests served in a behaviour of SeqSpec
SeqMaxRequests == 2

NoResult == [status |-> 0, has_response |-> FALSE, response |-> << >>, model |-> "none"]

\* jsonify({'error': 'Message required'}), 400
MessageRequired ==
    [status |-> 400, has_response |-> FALSE, response |-> << >>, model |-> "none"]

\* the except branch of chat(): 'Processing failed', 500
ProcessingFailed ==
    [status |-> 500, has_response |-> FALSE, response |-> << >>, model |-> "none"]

\* the success answer of chat()
Success(body) ==
    [status |-> 200, has_response |-> TRUE, response |-> body,
     model |-> IF BLENDERBOT_AVAILABLE THEN "blenderbot" ELSE "fallback"]

(***************************************************************************)
(* Request bodies and generated texts                                      *)
(***************************************************************************)
\* request.get_json(): JSON null / nothing, or an object with some keys
NullBody == [is_null |-> TRUE, keys |-> {}, is_str |-> FALSE, message |-> << >>]

EmptyObject == [is_null |-> FALSE, keys |-> {}, is_str |-> FALSE, message |-> << >>]

ContextOnly ==
    [is_null |-> FALSE, keys |-> {"context"}, is_str |-> FALSE, message |-> << >>]

\* {"message": 123}
NumberMessage ==
    [is_null |-> FALSE, keys |-> {"message"}, is_str |-> FALSE, message |-> << >>]

\* {"message": m}
MessageBody(m) ==
    [is_null |-> FALSE, keys |-> {"message"}, is_str |-> TRUE, message |-> m]

\* Messages of the concurrent specification
Messages ==
    { (* hello there *)
      <<"h", "e", "l", "l", "o", " ", "t", "h", "e", "r", "e">>,
      (* a scam call *)
      <<"a", " ", "s", "c", "a", "m", " ", "c", "a", "l", "l">> }

Bodies == {MessageBody(m) : m \in Messages}

\* Continuations the model produces in the concurrent specification
Continuations ==
    { (* Stay safe out there. *)
      <<"S", "t", "a", "y", " ", "s", "a", "f", "e", " ", "o", "u", "t", " ", "t", "h",
        "e", "r", "e", ".">>,
      <<" ", ".", ".", " ">> }

\* Messages of the sequential specification
SeqMessages ==
    { << >>,
      (* hello there *)
      <<"h", "e", "l", "l", "o", " ", "t", "h", "e", "r", "e">>,
      (* phishing email *)
      <<"p", "h", "i", "s", "h", "i", "n", "g", " ", "e", "m", "a", "i", "l">>,
      (* hey, is this a scam *)
      <<"h", "e", "y", ",", " ", "i", "s", " ", "t", "h", "i", "s", " ", "a", " ", "s",
        "c", "a", "m">>,
      (* SCAM voice call *)
      <<"S", "C", "A", "M", " ", "v", "o", "i", "c", "e", " ", "c", "a", "l", "l">>,
      (* dangerous email link *)
      <<"d", "a", "n", "g", "e", "r", "o", "u", "s", " ", "e", "m", "a", "i", "l", " ",
        "l", "i", "n", "k">>,
      (* how do I stay safe *)
      <<"h", "o", "w", " ", "d", "o", " ", "I", " ", "s", "t", "a", "y", " ", "s", "a",
        "f", "e">>,
      (* thanks a lot *)
      <<"t", "h", "a", "n", "k", "s", " ", "a", " ", "l", "o", "t">>,
      (* a dangerous looking parcel arrived at my door early on monday *)
      <<"a", " ", "d", "a", "n", "g", "e", "r", "o", "u", "s", " ", "l", "o", "o", "k",
        "i", "n", "g", " ", "p", "a", "r", "c", "e", "l", " ", "a", "r", "r", "i", "v",
        "e", "d", " ", "a", "t", " ", "m", "y", " ", "d", "o", "o", "r", " ", "e", "a",
        "r", "l", "y", " ", "o", "n", " ", "m", "o", "n", "d", "a", "y">> }

SeqBodies ==
    {NullBody, EmptyObject, ContextOnly, NumberMessage}
        \cup {MessageBody(m) : m \in SeqMessages}

\* Continuations the model produces in the sequential specification
SeqContinuations ==
    { (* Stay safe out there. *)
      <<"S", "t", "a", "y", " ", "s", "a", "f", "e", " ", "o", "u", "t", " ", "t", "h",
        "e", "r", "e", ".">>,
      << >>,
      <<" ", ".", " ", ".", ".", " ">>,
      (* One. Two. Three. *)
      <<"O", "n", "e", ".", " ", "T", "w", "o", ".", " ", "T", "h", "r", "e", "e", ".">>,
      (*   Be careful with links you did not expect .Report it *)
      <<" ", " ", "B", "e", " ", "c", "a", "r", "e", "f", "u", "l", " ", "w", "i", "t",
        "h", " ", "l", "i", "n", "k", "s", " ", "y", "o", "u", " ", "d", "i", "d", " ",
        "n", "o", "t", " ", "e", "x", "p", "e", "c", "t", " ", ".", "R", "e", "p", "o",
        "r", "t", " ", "i", "t">> }

\* tokenizer.decode(...): the model echoes the prompt before its
\* continuation, or returns the continuation alone
DecodedTexts(full_prompt, continuations) ==
    {full_prompt \o c : c \in continuations} \cup continuations

(***************************************************************************)
(* Start-up: the import at module load and SmartIbexAI.__init__            *)
(***************************************************************************)
LoadOutcomes == {"tokenizer_raises", "model_raises", "eval_raises", "loaded"}

\* initialize_blenderbot(): the attributes and the flag it leaves, by the
\* statement that raised (or none)
initialize_blenderbot(outcome) ==
    [tokenizer |-> IF outcome = "tokenizer_raises" THEN "None" ELSE "loaded",
     model     |-> IF outcome \in {"tokenizer_raises", "model_raises"}
                   THEN "None" ELSE "loaded",
     available |-> outcome = "loaded"]

\* SmartIbexAI(): initialize_blenderbot runs only when the import succeeded
Construct(import_ok, outcome) ==
    IF import_ok
    THEN initialize_blenderbot(outcome)
    ELSE [tokenizer |-> "None", model |-> "None", available |-> FALSE]

Init ==
    /\ \E import_ok \in BOOLEAN, outcome \in LoadOutcomes :
          LET s == Construct(import_ok, outcome)
          IN  /\ BLENDERBOT_AVAILABLE = s.available
              /\ tokenizer = s.tokenizer
              /\ model = s.model
    /\ conversation_context = << >>
    /\ pc = [t \in Threads |-> "idle"]
    /\ data = [t \in Threads |-> NullBody]
    /\ message = [t \in Threads |-> << >>]
    /\ intent = [t \in Threads |-> "none"]
    /\ recent_context = [t \in Threads |-> << >>]
    /\ response = [t \in Threads |-> << >>]
    /\ ai_response = [t \in Threads |-> << >>]
    /\ clean_response = [t \in Threads |-> << >>]
    /\ path = [t \in Threads |-> "none"]
    /\ result = [t \in Threads |-> NoResult]
    /\ generate_calls = [t \in Threads |-> 0]
    /\ appended = << >>
    /\ served = 0

(***************************************************************************)
(* chat(): one request on worker thread t                                  *)
(***************************************************************************)
FullPromptOf(t) == FullPrompt(intent[t], recent_context[t], message[t])

\* Faulty variant of ModelReady: the flag is not consulted
ModelReady_ModelOnly == model # "None"

\* generate_smart_response takes the model branch
ModelReady == BLENDERBOT_AVAILABLE /\ model # "None"

\* Faulty variant of MessageMissing: only `not data` is tested
MessageMissing_NotData(d) == d.is_null \/ d.keys = {}

\* chat(): `not data or 'message' not in data`
MessageMissing(d) == d.is_null \/ d.keys = {} \/ "message" \notin d.keys

\* the except branch of generate_smart_response
Fallback(t) == Success(get_fallback_response(intent[t], message[t]))

\* chat() from get_json() to the prompt of generate_smart_response
ChatBegin(t, d) ==
    /\ pc[t] = "idle"
    /\ served' = served + 1
    /\ data' = [data EXCEPT ![t] = d]
    /\ IF MessageMissing(d)
       THEN /\ result' = [result EXCEPT ![t] = MessageRequired]
            /\ path' = [path EXCEPT ![t] = "malformed"]
            /\ pc' = [pc EXCEPT ![t] = "done"]
            /\ UNCHANGED <<message, intent, recent_context>>
       ELSE IF ~d.is_str
       THEN \* data['message'] is absent or no str: data[...] or message.lower()
            \* raises outside the try of generate_smart_response
            /\ result' = [result EXCEPT ![t] = ProcessingFailed]
            /\ path' = [path EXCEPT ![t] = "crashed"]
            /\ pc' = [pc EXCEPT ![t] = "done"]
            /\ UNCHANGED <<message, intent, recent_context>>
       ELSE LET i == analyze_intent(d.message)
            IN  /\ message' = [message EXCEPT ![t] = d.message]
                /\ intent' = [intent EXCEPT ![t] = i]
                /\ IF ModelReady
                   THEN /\ recent_context' =
                              [recent_context EXCEPT
                                 ![t] = RecentContext(conversation_context)]
                        /\ pc' = [pc EXCEPT ![t] = "prompt"]
                        /\ UNCHANGED <<result, path>>
                   ELSE /\ result' =
                              [result EXCEPT
                                 ![t] = Success(get_fallback_response(i, d.message))]
                        /\ path' = [path EXCEPT ![t] = "unavailable"]
                        /\ pc' = [pc EXCEPT ![t] = "done"]
                        /\ UNCHANGED recent_context
    /\ UNCHANGED <<shared, conversation_context, response, ai_response,
                   clean_response, generate_calls, appended>>

\* tokenizer.encode(...) and the call of model.generate(...)
Encode(t, raises) ==
    /\ pc[t] = "prompt"
    /\ IF raises
       THEN /\ result' = [result EXCEPT ![t] = Fallback(t)]
            /\ path' = [path EXCEPT ![t] = "raised"]
            /\ pc' = [pc EXCEPT ![t] = "done"]
            /\ UNCHANGED generate_calls
       ELSE /\ generate_calls' = [generate_calls EXCEPT ![t] = @ + 1]
            /\ pc' = [pc EXCEPT ![t] = "generating"]
            /\ UNCHANGED <<result, path>>
    /\ UNCHANGED <<shared, conversation_context, locals, appended, served>>

\* model.generate returns and decode gives `decoded`; prompt stripping and
\* enhance_response
GenerateReturns(t, decoded) ==
    /\ pc[t] = "generating"
    /\ response' = [response EXCEPT ![t] = decoded]
    /\ LET ai == ExtractResponse(FullPromptOf(t), decoded)
       IN  /\ ai_response' = [ai_response EXCEPT ![t] = ai]
           /\ clean_response' =
                 [clean_response EXCEPT
                    ![t] = enhance_response(ai, intent[t], message[t])]
           /\ path' = [path EXCEPT
                 ![t] = IF Len(Sentences(ai)) = 0 THEN "degenerate" ELSE "generated"]
    /\ pc' = [pc EXCEPT ![t] = "update"]
    /\ UNCHANGED <<shared, conversation_context, data, message, intent,
                   recent_context, result, generate_calls, appended, served>>

\* Faulty variant of GenerateRaises: the request is tried again
GenerateRaises_Retry(t) ==
    /\ pc[t] = "generating"
    /\ pc' = [pc EXCEPT ![t] = "prompt"]
    /\ UNCHANGED <<shared, conversation_context, locals, path, result,
                   generate_calls, appended, served>>

\* model.generate or tokenizer.decode raises: the except branch
GenerateRaises(t) ==
    /\ pc[t] = "generating"
    /\ result' = [result EXCEPT ![t] = Fallback(t)]
    /\ path' = [path EXCEPT ![t] = "raised"]
    /\ pc' = [pc EXCEPT ![t] = "done"]
    /\ UNCHANGED <<shared, conversation_context, locals, generate_calls, appended,
                   served>>

\* model.generate never returns: nothing bounds the call
GenerateHangs(t) ==
    /\ pc[t] = "generating"
    /\ pc' = [pc EXCEPT ![t] = "blocked"]
    /\ UNCHANGED <<shared, conversation_context, locals, path, result,
                   generate_calls, appended, served>>

\* update_context: self.conversation_context.append({...})
ContextAppend(t) ==
    /\ pc[t] = "update"
    /\ conversation_context' =
          Append(conversation_context, Exchange(message[t], clean_response[t]))
    /\ appended' = Append(appended, Exchange(message[t], clean_response[t]))
    /\ pc' = [pc EXCEPT ![t] = "trim"]
    /\ UNCHANGED <<shared, locals, path, result, generate_calls, served>>

\* update_context: if len(self.conversation_context) > 3
ContextTrim(t) ==
    /\ pc[t] = "trim"
    /\ IF Len(conversation_context) > ContextCapacity
       THEN /\ pc' = [pc EXCEPT ![t] = "pop"]
            /\ UNCHANGED result
       ELSE /\ pc' = [pc EXCEPT ![t] = "done"]
            /\ result' = [result EXCEPT ![t] = Success(clean_response[t])]
    /\ UNCHANGED <<shared, conversation_context, locals, path, generate_calls,
                   appended, served>>

\* update_context: self.conversation_context.pop(0); pop on an empty list
\* raises IndexError inside the try of generate_smart_response
ContextPop(t) ==
    /\ pc[t] = "pop"
    /\ IF Len(conversation_context) = 0
       THEN /\ result' = [result EXCEPT ![t] = Fallback(t)]
            /\ path' = [path EXCEPT ![t] = "raised"]
            /\ UNCHANGED conversation_context
       ELSE /\ conversation_context' = Tail(conversation_context)
            /\ result' = [result EXCEPT ![t] = Success(clean_response[t])]
            /\ UNCHANGED path
    /\ pc' = [pc EXCEPT ![t] = "done"]
    /\ UNCHANGED <<shared, locals, generate_calls, appended, served>>

\* Faulty variant of update_context: pop() takes the newest exchange
update_context_Newest(t) ==
    /\ pc[t] = "update"
    /\ LET grown == Append(conversation_context,
                           Exchange(message[t], clean_response[t]))
       IN  conversation_context' =
              IF Len(grown) > ContextCapacity
              THEN SubSeq(grown, 1, Len(grown) - 1) ELSE grown
    /\ appended' = Append(appended, Exchange(message[t], clean_response[t]))
    /\ result' = [result EXCEPT ![t] = Success(clean_response[t])]
    /\ pc' = [pc EXCEPT ![t] = "done"]
    /\ UNCHANGED <<shared, locals, path, generate_calls, served>>

\* update_context as one step, when no other thread runs
update_context(t) ==
    /\ pc[t] = "update"
    /\ LET grown == Append(conversation_context,
                           Exchange(message[t], clean_response[t]))
       IN  conversation_context' =
              IF Len(grown) > ContextCapacity THEN Tail(grown) ELSE grown
    /\ appended' = Append(appended, Exchange(message[t], clean_response[t]))
    /\ result' = [result EXCEPT ![t] = Success(clean_response[t])]
    /\ pc' = [pc EXCEPT ![t] = "done"]
    /\ UNCHANGED <<shared, locals, path, generate_calls, served>>

\* chat() returns its answer; the thread takes the next request
Return(t) ==
    /\ pc[t] = "done"
    /\ pc' = [pc EXCEPT ![t] = "idle"]
    /\ data' = [data EXCEPT ![t] = NullBody]
    /\ message' = [message EXCEPT ![t] = << >>]
    /\ intent' = [intent EXCEPT ![t] = "none"]
    /\ recent_context' = [recent_context EXCEPT ![t] = << >>]
    /\ response' = [response EXCEPT ![t] = << >>]
    /\ ai_response' = [ai_response EXCEPT ![t] = << >>]
    /\ clean_response' = [clean_response EXCEPT ![t] = << >>]
    /\ path' = [path EXCEPT ![t] = "none"]
    /\ result' = [result EXCEPT ![t] = NoResult]
    /\ generate_calls' = [generate_calls EXCEPT ![t] = 0]
    /\ UNCHANGED <<shared, conversation_context, appended, served>>

(***************************************************************************)
(* Specifications                                                          *)
(***************************************************************************)
\* Concurrent requests on the shared instance
Next ==
    \E t \in Threads :
        \/ served < MaxRequests /\ \E d \in Bodies : ChatBegin(t, d)
        \/ \E raises \in BOOLEAN : Encode(t, raises)
        \/ \E decoded \in DecodedTexts(FullPromptOf(t), Continuations) :
              GenerateReturns(t, decoded)
        \/ GenerateRaises(t)
        \/ GenerateHangs(t)
        \/ ContextAppend(t)
        \/ ContextTrim(t)
        \/ ContextPop(t)
        \/ Return(t)

Spec == Init /\ [][Next]_vars

\* The same requests served one at a time: every update_context call runs
\* to its end before the next one starts
SerialNext ==
    \/ served < SerialMaxRequests /\ \E d \in Bodies : ChatBegin(MainThread, d)
    \/ \E raises \in BOOLEAN : Encode(MainThread, raises)
    \/ \E decoded \in DecodedTexts(FullPromptOf(MainThread), Continuations) :
          GenerateReturns(MainThread, decoded)
    \/ GenerateRaises(MainThread)
    \/ GenerateHangs(MainThread)
    \/ update_context(MainThread)
    \/ Return(MainThread)

SerialSpec == Init /\ [][SerialNext]_vars

\* One request at a time, over the wider sets of bodies and generated texts
SeqNext ==
    \/ served < SeqMaxRequests /\ \E d \in SeqBodies : ChatBegin(MainThread, d)
    \/ \E raises \in BOOLEAN : Encode(MainThread, raises)
    \/ \E decoded \in DecodedTexts(FullPromptOf(MainThread), SeqContinuations) :
          GenerateReturns(MainThread, decoded)
    \/ GenerateRaises(MainThread)
    \/ GenerateHangs(MainThread)
    \/ update_context(MainThread)
    \/ Return(MainThread)

SeqSpec == Init /\ [][SeqNext]_vars

\* A runnable request thread is eventually scheduled
FairSeqSpec == SeqSpec /\ WF_vars(SeqNext)

(***************************************************************************)
(* Properties                                                              *)
(***************************************************************************)
\* No thread is between the append and the end of update_context
ContextQuiet == \A t \in Threads : pc[t] \notin {"trim", "pop"}

\* The request of thread t was answered through generate_smart_response
Answered(t) ==
    pc[t] = "done" /\ path[t] \in {"generated", "degenerate", "raised", "unavailable"}

StaySafe == (* Stay safe out there. *)
            <<"S", "t", "a", "y", " ", "s", "a", "f", "e", " ", "o", "u", "t", " ", "t", "h",
              "e", "r", "e", ".">>

\* C1: whenever no update_context call is in progress, the context holds at
\* most 3 exchanges, and they are the last (up to 3) exchanges appended so
\* far, in the order of their appends: the oldest is evicted first.
C1_BoundedFifoContext ==
    ContextQuiet =>
        /\ Len(conversation_context) <= ContextCapacity
        /\ conversation_context = LastN(appended, ContextCapacity)

\* C1 happens: more than 3 exchanges were appended and the oldest one, which
\* differs from those kept, is gone.
C1_Witness ==
    /\ ContextQuiet
    /\ Len(appended) > ContextCapacity
    /\ Len(conversation_context) = ContextCapacity
    /\ conversation_context # SubSeq(appended, 1, ContextCapacity)
    /\ conversation_context[1] = appended[Len(appended) - 2]

\* C2: a request whose tokenize, generate or decode call raised is answered
\* with exactly get_fallback_response(analyze_intent(message), message), and
\* no request calls model.generate more than once.
C2_FailureGivesFallbackOnce ==
    \A t \in Threads :
        /\ generate_calls[t] <= 1
        /\ (pc[t] = "done" /\ path[t] = "raised") =>
              /\ result[t].status = 200
              /\ result[t].has_response
              /\ result[t].response =
                    get_fallback_response(analyze_intent(message[t]), message[t])

\* C2 happens: model.generate was called for a threat message, it raised, and
\* the request ended with the threat fallback.
C2_Witness ==
    /\ pc[MainThread] = "done"
    /\ path[MainThread] = "raised"
    /\ generate_calls[MainThread] = 1
    /\ intent[MainThread] = "threat"
    /\ result[MainThread].response = fallbacks["threat"]

\* C3: every request with a str message that reaches the end of
\* generate_smart_response, on the generated, raised, degenerate and
\* unavailable paths alike, carries a non-empty response string.
C3_ResponseNeverEmpty ==
    \A t \in Threads :
        (pc[t] = "done" /\ data[t].is_str /\ ~MessageMissing(data[t])) =>
            /\ Answered(t)
            /\ result[t].status = 200
            /\ result[t].has_response
            /\ Len(result[t].response) > 0

\* C3 happens: the generated text held no sentence and the request with the
\* empty message still ended with a non-empty response.
C3_Witness ==
    /\ pc[MainThread] = "done"
    /\ path[MainThread] = "degenerate"
    /\ data[MainThread] = MessageBody(<< >>)
    /\ Len(result[MainThread].response) > 0

\* C4, as the claim states it: a request whose message is "" is answered with
\* the 400 'Message required' response; it is never classified, never reaches
\* the model and leaves the context alone.
C4_EmptyMessageIsMalformed ==
    \A t \in Threads :
        (pc[t] # "idle" /\ data[t] = MessageBody(<< >>)) =>
            /\ pc[t] = "done"
            /\ result[t] = MessageRequired
            /\ intent[t] = "none"
            /\ generate_calls[t] = 0

\* C4, amended: a request whose JSON body is null, an empty object or an
\* object without the 'message' key is answered at once with the 400 'Message
\* required' response, without classification, generation or a change of the
\* context; a request whose message is "" is not such a request: it is
\* classified as casual and, when it ends, it is answered with status 200.
C4_MissingMessageIsMalformed ==
    [][\A t \in Threads :
          (pc[t] = "idle" /\ pc'[t] # "idle") =>
              /\ (data'[t].is_null \/ data'[t].keys = {}
                    \/ "message" \notin data'[t].keys) =>
                    /\ pc'[t] = "done"
                    /\ result'[t] = MessageRequired
                    /\ intent'[t] = "none"
                    /\ generate_calls'[t] = 0
                    /\ conversation_context' = conversation_context
                    /\ appended' = appended
              /\ data'[t] = MessageBody(<< >>) =>
                    /\ intent'[t] = "casual"
                    /\ result'[t] # MessageRequired
                    /\ pc'[t] = "done" => result'[t].status = 200]_vars

\* C4 amended happens: a body with a 'context' key and no 'message' key was
\* answered with 400.
C4_Witness ==
    /\ pc[MainThread] = "done"
    /\ data[MainThread] = ContextOnly
    /\ result[MainThread] = MessageRequired
    /\ path[MainThread] = "malformed"

\* C5, as the claim states it: every message that contains a threat keyword
\* is classified 'threat', also when it contains a greeting keyword.
C5_ThreatBeforeGreeting ==
    \A t \in Threads :
        (pc[t] # "idle" /\ data[t].is_str /\ ~MessageMissing(data[t])
            /\ AnyWordIn(threat_words, Lower(data[t].message))) =>
            intent[t] = "threat"

\* C6: while the model is not loaded (the flag is false: the import failed or
\* initialize_blenderbot raised) the flag stays false, no request reaches the
\* tokenizer or the model, and every request with a str message ends with
\* exactly the fallback of its classified intent.
C6_UnavailableIsPermanent ==
    /\ [](~BLENDERBOT_AVAILABLE =>
            \A t \in Threads :
                /\ generate_calls[t] = 0
                /\ pc[t] \in {"idle", "done"}
                /\ (pc[t] = "done" /\ data[t].is_str /\ ~MessageMissing(data[t])) =>
                      /\ path[t] = "unavailable"
                      /\ result[t].status = 200
                      /\ result[t].response =
                            fallbacks[analyze_intent(data[t].message)])
    /\ [][~BLENDERBOT_AVAILABLE => ~BLENDERBOT_AVAILABLE']_vars

\* C6 happens: the model object exists but initialize_blenderbot raised after
\* loading it; 'hello there' ended with the fixed greeting fallback.
C6_Witness ==
    /\ ~BLENDERBOT_AVAILABLE
    /\ model = "loaded"
    /\ pc[MainThread] = "done"
    /\ data[MainThread] = MessageBody((* hello there *)
                                      <<"h", "e", "l", "l", "o", " ", "t", "h", "e", "r", "e">>)
    /\ result[MainThread].response = fallbacks["greeting"]
    /\ result[MainThread].model = "fallback"

\* C7, as the claim states it: every request that was accepted eventually
\* ends with an answer, also when model.generate never returns.
C7_EveryRequestEnds ==
    \A t \in Threads : (pc[t] # "idle") ~> (pc[t] = "done")

\* C8, as the claim states it: a request whose generated text holds no
\* sentence is handled like one whose generation raised: none of its steps
\* changes the context, and it ends with the fallback of its intent.
C8_DegenerateLikeFailure ==
    [][\A t \in Threads :
          (pc'[t] # pc[t] /\ path'[t] \in {"raised", "degenerate"}) =>
              /\ conversation_context' = conversation_context
              /\ pc'[t] = "done" =>
                    result'[t].response =
                        get_fallback_response(intent'[t], message'[t])]_vars

\* C9, as the claim states it: the context read for the prompt and the append
\* are one critical section, so the context a request is about to append to
\* is the one its prompt was built from, and no state shows more than 3
\* exchanges.
C9_ReadAppendExclusive ==
    /\ Len(conversation_context) <= ContextCapacity
    /\ \A t \in Threads :
          pc[t] = "update" =>
              recent_context[t] = RecentContext(conversation_context)

\* C10: when the text left after prompt stripping holds k >= 1 non-empty
\* sentences, the clean response is the first min(2, k) of them, in order,
\* joined by '. ' and closed by a period, followed by a safety-tip suffix
\* exactly when the intent is threat; the prompt followed by 'Stay safe out
\* there.' gives the one sentence 'Stay safe out there.'.
C10_FirstTwoSentences ==
    \A t \in Threads :
        (pc[t] \in {"update", "done"} /\ path[t] = "generated") =>
            LET s == Sentences(ai_response[t])
                k == Len(s)
                body == IF k = 1 THEN s[1] \o <<".">>
                        ELSE s[1] \o <<".", " ">> \o s[2] \o <<".">>
                tip == SubSeq(clean_response[t], Len(body) + 1,
                              Len(clean_response[t]))
            IN  /\ k >= 1
                /\ Prefix(clean_response[t], Len(body)) = body
                /\ intent[t] = "threat" =>
                      tip \in {voice_suffix, email_suffix, generic_suffix}
                /\ intent[t] # "threat" => tip = << >>
                /\ response[t] = FullPromptOf(t) \o StaySafe =>
                      /\ ai_response[t] = StaySafe
                      /\ Prefix(clean_response[t], Len(body)) = StaySafe

\* C10 happens: with an earlier exchange in the prompt, the model echoed the
\* prompt and added three sentences, of which the first two were kept.
C10_Witness ==
    /\ pc[MainThread] = "done"
    /\ path[MainThread] = "generated"
    /\ recent_context[MainThread] # << >>
    /\ response[MainThread] = FullPromptOf(MainThread) \o (* One. Two. Three. *)
                                                          <<"O", "n", "e", ".", " ", "T", "w", "o", ".", " ", "T", "h", "r", "e", "e", ".">>
    /\ result[MainThread].response = <<"O", "n", "e", ".", " ", "T", "w", "o", ".">>

=============================================================================
